---- MODULE Spec2Model ----
(***************************************************************************)
(* Hex coordinate engine and windowed-grid manager of src/www/hex-grid.ts. *)
(*                                                                         *)
(* Number representation.  The program computes in floating point with     *)
(* sqrt(3) and HEX_SIZE = 2.3.  The model computes the same expressions    *)
(* exactly, in fixed units chosen so that every value is an integer:       *)
(*   - a world vector [x, z] stores x in units of sqrt(3)*HEX_SIZE/2 and   *)
(*     z in units of HEX_SIZE/2 (cell centres, hexagon corners and edge    *)
(*     midpoints all lie on this lattice);                                 *)
(*   - fractional axial / cube coordinates are numerators over FRAC_DEN;   *)
(*   - lengths are kept as squared lengths in units of (HEX_SIZE/10)^2,    *)
(*     so comparing lengths is comparing their squares.                    *)
(*                                                                         *)
(* hex-grid.ts holds the module twice: lines 1-581 keep the state in the   *)
(* `app` object, lines 583-1177 keep it in module variables and add the    *)
(* cellLookup map.  The handlers are otherwise the same; the model follows *)
(* the first copy and takes cellLookup from the second.                    *)
(***************************************************************************)
EXTENDS Integers, Sequences, FiniteSets, TLC

(***************************************************************************)
(* Bounds of the exploration.                                              *)
(***************************************************************************)
MaxCoord == 5        \* axial coordinates -MaxCoord..MaxCoord in the round trip
MaxDen == 6          \* denominators 1..MaxDen of fractional cube inputs
MaxNum == 9          \* numerators -MaxNum..MaxNum of fractional cube inputs
WordBits == 4        \* width of the signed machine integer (32 in the source)
MaxHover == 2        \* pointer hits [x, z] with |x|, |z| <= MaxHover
MaxPan == 2          \* pan destinations [x, z] with 0 <= x, z <= MaxPan
MaxRadius == 3       \* numeric radius texts up to MaxRadius
MaxClampCoord == 2   \* clamp inputs [x, z] with |x|, |z| <= MaxClampCoord
MaxRangeSteps == 16  \* clamp ranges 25*k, k in 0..MaxRangeSteps
MaxShape == 1        \* window centres (q, r) with |q|, |r| <= MaxShape in the shape check
MaxScenes == 3       \* scenes built in the scene-per-load version

(***************************************************************************)
(* Program constants.                                                      *)
(***************************************************************************)
DEFAULT_RADIUS == 3
FRAC_DEN == 6        \* common denominator of (sqrt(3)/3)*x/HEX_SIZE, z/3, 2z/3
HEX_SIZE_SQ == 100   \* HEX_SIZE^2 in units of (HEX_SIZE/10)^2
DAMP_NUM == 8        \* maxExtent * 0.8
DAMP_DEN == 10
SCENE_DAMP_NUM == 65     \* scene-per-load version: maxExtent * 0.65
SCENE_DAMP_DEN == 100
SCENE_MAX_RADIUS == 25   \* scene-per-load version: Math.min(parsed, 25)

VARIABLES
    radiusInput,       \* radiusInput.value
    currentCenter,     \* app.currentCenter: <<>> (null) or <<[q, r]>>
    currentRadius,     \* app.currentRadius
    gridLines,         \* app.gridLines: <<>> (null) or <<mesh>>
    maxPanRange,       \* app.maxPanRange, squared
    target,            \* camera.target
    edgeScrollActive,  \* app.edgeScrollActive
    edgeScrollTimer,   \* app.edgeScrollTimer: 0 (null) or a frame handle
    rafLoop,           \* frame handles with the edge-scroll loop pending
    keysDown,          \* keysDown of setupPointerHandling
    window,            \* the grid last returned by hex_window: <<>> or <<grid>>
    cellLookup,        \* cellLookup: <<>> (empty) or <<grid>>, the cells of grid
    liveMeshes,        \* ids of the meshes created and not disposed
    last,              \* what the last handler did
    scene,             \* scene-per-load version: 0 (null) or the number of the scene
    frameScene,        \* scene-per-load version: <<handle, scene at the request>>
    fnIn,              \* argument of the function under study
    fnOut              \* its result: <<>> before the call, <<v>> after

mainVars == <<radiusInput, currentCenter, currentRadius, gridLines, maxPanRange,
              target, edgeScrollActive, edgeScrollTimer, rafLoop, keysDown,
              window, cellLookup, liveMeshes, last, scene, frameScene>>
fnVars == <<fnIn, fnOut>>
vars == <<radiusInput, currentCenter, currentRadius, gridLines, maxPanRange,
          target, edgeScrollActive, edgeScrollTimer, rafLoop, keysDown,
          window, cellLookup, liveMeshes, last, scene, frameScene, fnIn, fnOut>>

(***************************************************************************)
(* Arithmetic helpers.                                                     *)
(***************************************************************************)
Abs(n) == IF n < 0 THEN -n ELSE n
Max2(a, b) == IF a >= b THEN a ELSE b
Max3(a, b, c) == Max2(a, Max2(b, c))

Pow2(n) == 2 ^ n

(* Math.round on the rational n/d (d > 0): floor(n/d + 1/2), so halves go   *)
(* towards +infinity (Math.round(-0.5) is -0, Math.round(0.5) is 1).        *)
MathRound(n, d) == (2 * n + d) \div (2 * d)

(***************************************************************************)
(* CoordinateTransform.                                                    *)
(***************************************************************************)
(* x = HEX_SIZE*(sqrt(3)*q + (sqrt(3)/2)*r) = (2q + r) * sqrt(3)*HEX_SIZE/2 *)
(* z = HEX_SIZE*(1.5*r)                     = (3r)     * HEX_SIZE/2         *)
axialToWorld(q, r) == [x |-> 2 * q + r, z |-> 3 * r]

(* Vector3.length() of a world vector, squared, in units (HEX_SIZE/10)^2:   *)
(* (sqrt(3)*HEX_SIZE/2)^2 = 75 units, (HEX_SIZE/2)^2 = 25 units.            *)
Length2(v) == 75 * v.x * v.x + 25 * v.z * v.z

(* The mutants of cubeRound. *)
cubeRound_noFix(x, y, z, d) ==
    [x |-> MathRound(x, d), y |-> MathRound(y, d), z |-> MathRound(z, d)]

cubeRound_geTie(x, y, z, d) ==
    LET rx == MathRound(x, d)
        ry == MathRound(y, d)
        rz == MathRound(z, d)
        x_diff == Abs(rx * d - x)
        y_diff == Abs(ry * d - y)
        z_diff == Abs(rz * d - z)
    IN  IF x_diff >= y_diff /\ x_diff >= z_diff
        THEN [x |-> -ry - rz, y |-> ry, z |-> rz]
        ELSE IF y_diff > z_diff
             THEN [x |-> rx, y |-> -rx - rz, z |-> rz]
             ELSE [x |-> rx, y |-> ry, z |-> -rx - ry]

cubeRound_alwaysZ(x, y, z, d) ==
    [x |-> MathRound(x, d), y |-> MathRound(y, d),
     z |-> -MathRound(x, d) - MathRound(y, d)]

(* cubeRound(x/d, y/d, z/d).  The differences are kept as numerators over d. *)
cubeRound(x, y, z, d) ==
    LET rx == MathRound(x, d)
        ry == MathRound(y, d)
        rz == MathRound(z, d)
        x_diff == Abs(rx * d - x)
        y_diff == Abs(ry * d - y)
        z_diff == Abs(rz * d - z)
    IN  IF x_diff > y_diff /\ x_diff > z_diff
        THEN [x |-> -ry - rz, y |-> ry, z |-> rz]
        ELSE IF y_diff > z_diff
             THEN [x |-> rx, y |-> -rx - rz, z |-> rz]
             ELSE [x |-> rx, y |-> ry, z |-> -rx - ry]

(***************************************************************************)
(* CellIdentity: 32-bit integer operators of the source at width WordBits. *)
(***************************************************************************)
(* ToInt32: wrap an integer to the signed machine width. *)
ToInt(v) ==
    LET m == Pow2(WordBits)
        h == Pow2(WordBits - 1)
    IN  ((v + h) % m) - h

(* Bitwise operators on two's complement integers of `bits` bits. *)
RECURSIVE XorBits(_, _, _)
XorBits(a, b, bits) ==
    IF bits = 0 THEN 0
    ELSE (((a % 2) + (b % 2)) % 2) + 2 * XorBits(a \div 2, b \div 2, bits - 1)

RECURSIVE OrBits(_, _, _)
OrBits(a, b, bits) ==
    IF bits = 0 THEN 0
    ELSE (IF (a % 2) = 1 \/ (b % 2) = 1 THEN 1 ELSE 0)
         + 2 * OrBits(a \div 2, b \div 2, bits - 1)

Signed(u, bits) == IF u >= Pow2(bits - 1) THEN u - Pow2(bits) ELSE u
Unsigned(v, bits) == v % Pow2(bits)

(* a ^ b on machine integers. *)
Xor32(a, b) ==
    Signed(XorBits(Unsigned(a, WordBits), Unsigned(b, WordBits), WordBits), WordBits)

(* v << 1 and v >> (WordBits - 1) on machine integers. *)
Shl1(v) == ToInt(2 * ToInt(v))
SarSign(v) == IF ToInt(v) < 0 THEN -1 ELSE 0

zigzag(v) == Xor32(Shl1(v), SarSign(v))

(* BigInt arithmetic is unbounded; WideBits is wide enough to hold           *)
(* (qq << WordBits) | rr for machine integers qq and rr.                    *)
WideBits == 2 * WordBits + 2
BigOr(a, b) ==
    Signed(OrBits(Unsigned(a, WideBits), Unsigned(b, WideBits), WideBits), WideBits)

packId(q, r) ==
    LET qq == zigzag(q)
        rr == zigzag(r)
    IN  BigOr(qq * Pow2(WordBits), rr)

(* The mutant of worldToCell: q without the (1/3)*pos.z term. *)
worldToCell_noZ(pos) ==
    LET q == 3 * pos.x
        r == 2 * pos.z
        rounded == cubeRound(q, -q - r, r, FRAC_DEN)
    IN  [id |-> packId(rounded.x, rounded.z),
         x |-> rounded.x, y |-> rounded.y, z |-> rounded.z,
         q |-> rounded.x, r |-> rounded.z,
         distance |-> Max3(Abs(rounded.x), Abs(rounded.y), Abs(rounded.z))]

(* worldToCell: q = ((sqrt(3)/3)*pos.x - (1/3)*pos.z)/HEX_SIZE and           *)
(* r = ((2/3)*pos.z)/HEX_SIZE.  With pos = [x, z] in lattice units these are *)
(* x/2 - z/6 and z/3, numerators 3x - z and 2z over FRAC_DEN.               *)
worldToCell(pos) ==
    LET q == 3 * pos.x - pos.z
        r == 2 * pos.z
        x == q
        z == r
        y == -x - z
        rounded == cubeRound(x, y, z, FRAC_DEN)
    IN  [id |-> packId(rounded.x, rounded.z),
         x |-> rounded.x, y |-> rounded.y, z |-> rounded.z,
         q |-> rounded.x, r |-> rounded.z,
         distance |-> Max3(Abs(rounded.x), Abs(rounded.y), Abs(rounded.z))]

(***************************************************************************)
(* Grid generation module (wasm, outside src/www): all cells within hex    *)
(* distance `radius` of the centre, each with its distance to the centre.  *)
(***************************************************************************)
HexDistance(dq, dr) == Max3(Abs(dq), Abs(dr), Abs(dq + dr))

(* The cells of the grid hex_window(center_q, center_r, radius) returns. *)
hex_window_cells(center_q, center_r, radius) ==
    {[q |-> center_q + d[1], r |-> center_r + d[2],
      distance |-> HexDistance(d[1], d[2])] :
         d \in {e \in (-radius..radius) \X (-radius..radius) :
                  HexDistance(e[1], e[2]) <= radius}}

(* The grid without its cells: the fields renderGrid reads besides them. *)
hex_window(center_q, center_r, radius) ==
    [radius |-> radius, center_q |-> center_q, center_r |-> center_r]

(***************************************************************************)
(* Radius input.  A text is [kind, n]: kind "int" is the decimal text of n, *)
(* kind "empty" the empty string, kind "junk" a text parseInt rejects.      *)
(***************************************************************************)
IntText(n) == [kind |-> "int", n |-> n]
EmptyText == [kind |-> "empty", n |-> 0]
JunkText == [kind |-> "junk", n |-> 0]
RadiusTexts == {EmptyText, JunkText} \cup {IntText(n) : n \in -1..MaxRadius}
                 \cup {IntText(DEFAULT_RADIUS)}

(* parseInt(text, 10): NaN for a text without a leading integer. *)
parseInt(text) == [nan |-> text.kind # "int", n |-> text.n]

(* The mutant of parseRadiusCap. *)
parseRadiusCap_one(text) ==
    LET parsed == parseInt(text)
    IN  IF parsed.nan \/ parsed.n < 1 THEN 1 ELSE Max2(1, parsed.n)

(* Another mutant of parseRadiusCap: without the test parsed < 1. *)
parseRadiusCap_noGuard(text) ==
    LET parsed == parseInt(text)
    IN  IF parsed.nan THEN DEFAULT_RADIUS ELSE parsed.n

parseRadiusCap(text) ==
    LET parsed == parseInt(text)
    IN  IF parsed.nan \/ parsed.n < 1 THEN DEFAULT_RADIUS ELSE Max2(1, parsed.n)

(***************************************************************************)
(* PanLimiter.                                                             *)
(***************************************************************************)
(* The camera target is [x, z, len2]: a vector in the direction of the      *)
(* lattice vector [x, z] with squared length len2 (len2 = Length2([x, z])   *)
(* until a clamp scales it; the zero vector is [0, 0, 0]).                  *)
Vec(w) == [x |-> w.x, z |-> w.z, len2 |-> Length2(w)]
ZeroVec == [x |-> 0, z |-> 0, len2 |-> 0]

(* Vector3.scaleInPlace(s) with s >= 0 given by its square num2/den2. *)
scaleInPlace(t, num2, den2) ==
    LET l2 == (t.len2 * num2) \div den2
    IN  IF l2 = 0 THEN ZeroVec ELSE [x |-> t.x, z |-> t.z, len2 |-> l2]

(* The mutant of clampTarget: the factor is computed from the squared       *)
(* lengths, (maxPanRange / len)^2 instead of maxPanRange / len.             *)
clampTarget_squared(t, maxRange2) ==
    IF t.len2 > maxRange2
    THEN scaleInPlace(t, maxRange2 * maxRange2, t.len2 * t.len2)
    ELSE t

(* const len = cam.target.length();                                         *)
(* if (len > maxPanRange) cam.target.scaleInPlace(maxPanRange / len);       *)
clampTarget(t, maxRange2) ==
    IF t.len2 > maxRange2 THEN scaleInPlace(t, maxRange2, t.len2) ELSE t

(* The mutant of maxExtent: without the HEX_SIZE * 2 term. *)
maxExtent_noFloor(radius) ==
    Max2(Length2(axialToWorld(radius, 0)), Length2(axialToWorld(radius, -radius)))

(* Math.max(farAxial.length(), farDiag.length(), HEX_SIZE * 2), squared. *)
maxExtent(radius) ==
    LET farAxial == axialToWorld(radius, 0)
        farDiag == axialToWorld(radius, -radius)
    IN  Max3(Length2(farAxial), Length2(farDiag), 4 * HEX_SIZE_SQ)

(* maxExtent * 0.8, squared. *)
damped(extent2) == (extent2 * DAMP_NUM * DAMP_NUM) \div (DAMP_DEN * DAMP_DEN)

(***************************************************************************)
(* WindowManager.                                                          *)
(***************************************************************************)
Null == <<>>
Some(v) == <<v>>

(* What a handler did: the handler and the centre it was given, whether it  *)
(* ran to its end (FALSE: an exception left it), the calls it made on the   *)
(* grid module and the grid mesh, and, for a window build, how it relates   *)
(* to the grid returned before it and which mesh it found.  `radius` is the *)
(* radius passed to hex_window (0: no call) and `distance` the distance     *)
(* field of the hover cell the handler was given (-1: no cell).             *)
Trace(op, center, ok, calls, hadWindow, sameCenter, sameRadius, prevId) ==
    [op |-> op, center |-> center, ok |-> ok, calls |-> calls,
     hadWindow |-> hadWindow, sameCenter |-> sameCenter,
     sameRadius |-> sameRadius, prevId |-> prevId,
     radius |-> 0, distance |-> -1]
Did(op, calls) == Trace(op, Null, TRUE, calls, FALSE, FALSE, FALSE, 0)

MeshId(gl) == IF gl = Null THEN 0 ELSE gl[1].id

(* CreateGreasedLine returns a new object, distinct from every mesh that is *)
(* live or was just disposed.                                               *)
NewMesh(used) == CHOOSE i \in 1..(Cardinality(used) + 1) : i \notin used

(* The mutants of the cache test of renderGrid. *)
reuseGeometry_never(gl, radius) == FALSE
reuseGeometry_always(gl, radius) == gl # Null

(* app.gridLines && app.gridLines.metadata?.radius === radius *)
reuseGeometry(gl, radius) == gl # Null /\ gl[1].radius = radius

(* The mutant of disposeMesh: the mesh found is dropped without dispose. *)
disposeMesh_leak(live, gl) == live

(* app.gridLines?.dispose(false, true): the live meshes after it. *)
disposeMesh(live, gl) == live \ {MeshId(gl)}

(* The mutant of extentRadius: the radius tag of the mesh found. *)
extentRadius_stale(grid, gl) == IF gl # Null THEN gl[1].radius ELSE grid.radius

(* The radius the pan range is computed from: grid.radius of the grid just  *)
(* returned (gl is the mesh renderGrid found).                              *)
extentRadius(grid, gl) == grid.radius

(* renderGrid(centerQ, centerR, radius, s), called by handler `op` that was *)
(* given a hover cell of distance field `shown` (-1: none).                 *)
(* `ok` is whether hex_window and JSON.parse return a grid; when they throw *)
(* nothing catches the exception and the handler ends there.                *)
renderGrid(centerQ, centerR, radius, ok, op, shown) ==
    LET grid == hex_window(centerQ, centerR, radius)
        centerWorld == axialToWorld(centerQ, centerR)
        reuse == reuseGeometry(gridLines, radius)
        created == NewMesh(liveMeshes \cup {MeshId(gridLines)})
        hadWindow == window # Null
        sameCenter == hadWindow /\ window[1].center_q = centerQ
                                /\ window[1].center_r = centerR
        sameRadius == hadWindow /\ window[1].radius = radius
        trace(calls) ==
            [Trace(op, Some([q |-> centerQ, r |-> centerR]), ok, calls,
                   hadWindow, sameCenter, sameRadius, MeshId(gridLines))
               EXCEPT !.radius = radius, !.distance = shown]
    IN  IF ~ok
        THEN /\ last' = trace(<<"hex_window">>)
             /\ UNCHANGED <<gridLines, maxPanRange, window, cellLookup, liveMeshes>>
        ELSE /\ window' = Some(grid)
             /\ cellLookup' = Some(grid)
             /\ IF reuse
                THEN /\ gridLines' = Some([gridLines[1] EXCEPT
                                              !.position = centerWorld,
                                              !.enabled = TRUE])
                     /\ last' = trace(<<"hex_window", "position", "setEnabled">>)
                     /\ UNCHANGED liveMeshes
                ELSE /\ liveMeshes' = disposeMesh(liveMeshes, gridLines)
                                         \cup {created}
                     /\ gridLines' = Some([id |-> created, radius |-> radius,
                                           position |-> centerWorld,
                                           enabled |-> TRUE])
                     /\ last' = trace(<<"hex_window">>
                                      \o (IF gridLines # Null
                                          THEN <<"dispose">> ELSE <<>>)
                                      \o <<"create", "setEnabled", "position">>)
             /\ maxPanRange' = damped(maxExtent(extentRadius(grid, gridLines)))

(* The mutants of the centre test of setHover: only a missing centre        *)
(* counts; every hover counts.                                              *)
centerChanged_nullOnly(cur, cell) == cur = Null
centerChanged_always(cur, cell) == TRUE

(* !app.currentCenter || app.currentCenter.q !== cell.q                     *)
(*                    || app.currentCenter.r !== cell.r                     *)
centerChanged(cur, cell) ==
    cur = Null \/ cur[1].q # cell.q \/ cur[1].r # cell.r

(* The mutant of requestedRadius: the radius of the last build. *)
requestedRadius_stale(text, cur) == cur

(* app.currentRadius = parseRadiusCap(): the radius is read from the input  *)
(* again, whatever app.currentRadius (cur) was.                             *)
requestedRadius(text, cur) == parseRadiusCap(text)

(* What setHover(cell, s) does when it does not call renderGrid. *)
hoverSameCenter_noEnable(cell) ==
    /\ last' = [Did("setHover", <<>>) EXCEPT
                   !.center = Some([q |-> cell.q, r |-> cell.r]),
                   !.distance = cell.distance]
    /\ UNCHANGED <<gridLines, currentCenter, currentRadius, maxPanRange, window,
                   cellLookup, liveMeshes>>

hoverSameCenter(cell) ==
    /\ IF gridLines # Null
       THEN /\ gridLines' = Some([gridLines[1] EXCEPT !.enabled = TRUE])
            /\ last' = [Did("setHover", <<"setEnabled">>) EXCEPT
                           !.center = Some([q |-> cell.q, r |-> cell.r]),
                           !.distance = cell.distance]
       ELSE /\ last' = [Did("setHover", <<>>) EXCEPT
                           !.center = Some([q |-> cell.q, r |-> cell.r]),
                           !.distance = cell.distance]
            /\ UNCHANGED gridLines
    /\ UNCHANGED <<currentCenter, currentRadius, maxPanRange, window,
                   cellLookup, liveMeshes>>

(* setHover(cell, s) for a resolved cell. *)
setHover(cell, ok) ==
    IF centerChanged(currentCenter, cell)
    THEN /\ currentCenter' = Some([q |-> cell.q, r |-> cell.r])
         /\ currentRadius' = requestedRadius(radiusInput, currentRadius)
         /\ renderGrid(cell.q, cell.r,
                       requestedRadius(radiusInput, currentRadius),
                       ok, "setHover", cell.distance)
    ELSE hoverSameCenter(cell)

(* The mutant of setHover(null, s): the mesh is disposed. *)
setHoverNull_dispose(op) ==
    /\ gridLines' = Null
    /\ liveMeshes' = liveMeshes \ {MeshId(gridLines)}
    /\ cellLookup' = Null
    /\ last' = Did(op, IF gridLines # Null THEN <<"dispose">> ELSE <<>>)
    /\ UNCHANGED <<currentCenter, currentRadius, maxPanRange, window>>

(* setHover(null, s). *)
setHoverNull(op) ==
    /\ gridLines' = IF gridLines # Null
                    THEN Some([gridLines[1] EXCEPT !.enabled = FALSE])
                    ELSE gridLines
    /\ cellLookup' = Null
    /\ last' = Did(op, IF gridLines # Null THEN <<"setDisabled">> ELSE <<>>)
    /\ UNCHANGED <<currentCenter, currentRadius, maxPanRange, window, liveMeshes>>

(* Pointer hits on the grid plane. *)
HoverPoints == {[x |-> i, z |-> j] : i \in -MaxHover..MaxHover, j \in -MaxHover..MaxHover}

(* The cells the hits resolve to. *)
HoverCells == {worldToCell(hit) : hit \in HoverPoints}

(* cellLookup.get(key) || the computed cell: a cell of the grid in the      *)
(* lookup replaces the computed one; it has the same coordinates and the    *)
(* distance the grid module gave it, the distance to the grid's centre.     *)
cellLookupGet(cell) ==
    IF cellLookup = Null
    THEN cell
    ELSE LET d == HexDistance(cell.q - cellLookup[1].center_q,
                              cell.r - cellLookup[1].center_r)
         IN  IF d <= cellLookup[1].radius
             THEN [cell EXCEPT !.distance = d]
             ELSE cell

(* POINTERMOVE observer, the ray hits the plane at a point that             *)
(* worldToCell resolves to `cell`.                                          *)
PointerMoveHit(cell, ok) ==
    /\ setHover(cellLookupGet(cell), ok)
    /\ UNCHANGED <<radiusInput, target, edgeScrollActive, edgeScrollTimer,
                   rafLoop, keysDown, scene, frameScene, fnIn, fnOut>>

(* POINTERMOVE observer, ray misses the plane. *)
PointerMoveMiss ==
    /\ setHoverNull("pointerMiss")
    /\ UNCHANGED <<radiusInput, target, edgeScrollActive, edgeScrollTimer,
                   rafLoop, keysDown, scene, frameScene, fnIn, fnOut>>

(* updateWindowFromCamera(), after the caller has set app.currentRadius. *)
updateWindowFromCamera(ok, op) ==
    IF currentCenter = Null
    THEN /\ currentRadius' = parseRadiusCap(radiusInput)
         /\ gridLines' = IF gridLines # Null
                         THEN Some([gridLines[1] EXCEPT !.enabled = FALSE])
                         ELSE gridLines
         /\ last' = Did(op, IF gridLines # Null THEN <<"setDisabled">> ELSE <<>>)
         /\ UNCHANGED <<maxPanRange, window, cellLookup, liveMeshes>>
    ELSE /\ currentRadius' = parseRadiusCap(radiusInput)
         /\ renderGrid(currentCenter[1].q, currentCenter[1].r,
                       parseRadiusCap(radiusInput), ok, op, -1)

(* rebuildBtn "click" listener. *)
RebuildClick(ok) ==
    /\ updateWindowFromCamera(ok, "click")
    /\ UNCHANGED <<radiusInput, currentCenter, target, edgeScrollActive,
                   edgeScrollTimer, rafLoop, keysDown, scene, frameScene, fnIn, fnOut>>

(* radiusInput "keydown" listener, key Enter. *)
RadiusEnter(ok) ==
    /\ updateWindowFromCamera(ok, "enter")
    /\ UNCHANGED <<radiusInput, currentCenter, target, edgeScrollActive,
                   edgeScrollTimer, rafLoop, keysDown, scene, frameScene, fnIn, fnOut>>

(* The user edits the radius field. *)
EditRadius(text) ==
    /\ text # radiusInput
    /\ radiusInput' = text
    /\ last' = Did("edit", <<>>)
    /\ UNCHANGED <<currentCenter, currentRadius, gridLines, maxPanRange, target,
                   edgeScrollActive, edgeScrollTimer, rafLoop, keysDown, window, cellLookup, liveMeshes, scene, frameScene, fnIn, fnOut>>

(***************************************************************************)
(* InputController: keyboard pan, edge scroll, pointer enter and leave.    *)
(***************************************************************************)
(* Keys the key listeners accept, and the ones whose events are explored. *)
PanKeys == {"ArrowLeft", "ArrowRight", "ArrowUp", "ArrowDown", "w", "a", "s", "d"}
Keys == {"ArrowLeft", "d"}

(* cam.target.addInPlace(offset): the offset points along the camera's      *)
(* right / forward directions and grows with the frame time, so the sum can *)
(* be any point of the plane.  The lattice points of one quadrant are       *)
(* explored; lengths do not depend on the signs of the components.          *)
PanPoints == {[x |-> i, z |-> j] : i \in 0..MaxPan, j \in 0..MaxPan}

KeyDx == (IF keysDown \cap {"ArrowRight", "d"} # {} THEN 1 ELSE 0)
         - (IF keysDown \cap {"ArrowLeft", "a"} # {} THEN 1 ELSE 0)
KeyDz == (IF keysDown \cap {"ArrowDown", "s"} # {} THEN 1 ELSE 0)
         - (IF keysDown \cap {"ArrowUp", "w"} # {} THEN 1 ELSE 0)

(* handleKeyPan(dt) with the pan destination w = target + offset. *)
handleKeyPan(w) ==
    IF KeyDx = 0 /\ KeyDz = 0
    THEN /\ last' = Did("frame", <<>>)
         /\ UNCHANGED target
    ELSE /\ target' = clampTarget(Vec(w), maxPanRange)
         /\ last' = Did("keyPan", <<"clamp">>)

(* keyLoop: runs once per animation frame, always rescheduled. *)
KeyLoop(w) ==
    /\ handleKeyPan(w)
    /\ UNCHANGED <<radiusInput, currentCenter, currentRadius, gridLines,
                   maxPanRange, edgeScrollActive, edgeScrollTimer, rafLoop,
                   keysDown, window, cellLookup, liveMeshes, scene, frameScene, fnIn, fnOut>>

(* window "keydown" listener. *)
KeyDown(k) ==
    /\ k \in PanKeys
    /\ k \notin keysDown
    /\ keysDown' = keysDown \cup {k}
    /\ last' = Did("key", <<>>)
    /\ UNCHANGED <<radiusInput, currentCenter, currentRadius, gridLines,
                   maxPanRange, target, edgeScrollActive, edgeScrollTimer,
                   rafLoop, window, cellLookup, liveMeshes, scene, frameScene, fnIn, fnOut>>

(* window "keyup" listener. *)
KeyUp(k) ==
    /\ k \in PanKeys
    /\ k \in keysDown
    /\ keysDown' = keysDown \ {k}
    /\ last' = Did("key", <<>>)
    /\ UNCHANGED <<radiusInput, currentCenter, currentRadius, gridLines,
                   maxPanRange, target, edgeScrollActive, edgeScrollTimer,
                   rafLoop, window, cellLookup, liveMeshes, scene, frameScene, fnIn, fnOut>>

(* requestAnimationFrame returns a handle that is not in use. *)
FreshHandle(used) == CHOOSE h \in 1..(Cardinality(used) + 1) : h \notin used

(* loop: the edge-scroll callback of frame handle h runs.  `edge` is whether *)
(* the pointer is within EDGE_PX of a border (dx or dz non-zero).           *)
EdgeLoop(h, edge, w) ==
    /\ h \in rafLoop
    /\ IF ~edgeScrollActive
       THEN /\ rafLoop' = rafLoop \ {h}
            /\ last' = Did("frame", <<>>)
            /\ UNCHANGED <<target, edgeScrollTimer>>
       ELSE /\ IF edge
               THEN /\ target' = clampTarget(Vec(w), maxPanRange)
                    /\ last' = Did("edgePan", <<"clamp">>)
               ELSE /\ last' = Did("frame", <<>>)
                    /\ UNCHANGED target
            /\ LET fresh == FreshHandle(rafLoop \cup {edgeScrollTimer, h})
               IN  /\ edgeScrollTimer' = fresh
                   /\ rafLoop' = (rafLoop \ {h}) \cup {fresh}
    /\ UNCHANGED <<radiusInput, currentCenter, currentRadius, gridLines,
                   maxPanRange, edgeScrollActive, keysDown, window, cellLookup, liveMeshes, scene, frameScene, fnIn, fnOut>>

(* canvas "mouseenter" listener. *)
MouseEnter ==
    /\ edgeScrollActive' = TRUE
    /\ IF edgeScrollTimer = 0
       THEN LET fresh == FreshHandle(rafLoop)
            IN  /\ edgeScrollTimer' = fresh
                /\ rafLoop' = rafLoop \cup {fresh}
       ELSE UNCHANGED <<edgeScrollTimer, rafLoop>>
    /\ last' = Did("mouseenter", <<>>)
    /\ UNCHANGED <<radiusInput, currentCenter, currentRadius, gridLines,
                   maxPanRange, target, keysDown, window, cellLookup,
                   liveMeshes, scene, frameScene, fnIn, fnOut>>

cancelAnimationFrame_noop(pending, handle) == pending

(* cancelAnimationFrame(handle): the callback of that handle will not run.  *)
cancelAnimationFrame(pending, handle) == pending \ {handle}

(* The two canvas "mouseleave" listeners, in registration order:            *)
(* setHover(null, s), then the edge scroll is stopped.                      *)
MouseLeave ==
    /\ setHoverNull("mouseleave")
    /\ edgeScrollActive' = FALSE
    /\ IF edgeScrollTimer # 0
       THEN /\ rafLoop' = cancelAnimationFrame(rafLoop, edgeScrollTimer)
            /\ edgeScrollTimer' = 0
       ELSE UNCHANGED <<edgeScrollTimer, rafLoop>>
    /\ UNCHANGED <<radiusInput, target, keysDown, scene, frameScene, fnIn, fnOut>>

(***************************************************************************)
(* The program: state after run(), and its event handlers.                 *)
(***************************************************************************)
(* run(): radiusInput.value = radiusInput.value || "3", then                *)
(* app.currentRadius = parseRadiusCap() and app.currentCenter = null.       *)
MainInit(texts) ==
    /\ \E v \in texts :
          radiusInput = IF v = EmptyText THEN IntText(DEFAULT_RADIUS) ELSE v
    /\ currentCenter = Null
    /\ currentRadius = parseRadiusCap(radiusInput)
    /\ gridLines = Null
    /\ maxPanRange = 0
    /\ target = ZeroVec
    /\ edgeScrollActive = FALSE
    /\ edgeScrollTimer = 0
    /\ rafLoop = {}
    /\ keysDown = {}
    /\ window = Null
    /\ cellLookup = Null
    /\ liveMeshes = {}
    /\ last = Did("run", <<>>)
    /\ scene = 0
    /\ frameScene = {}

(* The window manager: the handlers that read or write the window, under    *)
(* every pointer hit, radius text and grid-module outcome of the bounds.    *)
(* They neither read nor write the camera target, the keys or the frames.   *)
Init ==
    /\ MainInit(RadiusTexts)
    /\ fnIn = <<>>
    /\ fnOut = <<>>

Next ==
    \/ \E cell \in HoverCells, ok \in BOOLEAN : PointerMoveHit(cell, ok)
    \/ PointerMoveMiss
    \/ MouseLeave
    \/ \E ok \in BOOLEAN : RebuildClick(ok)
    \/ \E ok \in BOOLEAN : RadiusEnter(ok)
    \/ \E text \in RadiusTexts : EditRadius(text)

Spec == Init /\ [][Next]_vars

(* The window manager when every call of the grid module returns a grid. *)
NextOk ==
    \/ \E cell \in HoverCells : PointerMoveHit(cell, TRUE)
    \/ PointerMoveMiss
    \/ MouseLeave
    \/ RebuildClick(TRUE)
    \/ RadiusEnter(TRUE)
    \/ \E text \in RadiusTexts : EditRadius(text)

SpecOk == Init /\ [][NextOk]_vars

(* The whole program, panning included, over two hover cells and two radii. *)
PanHoverCells == {worldToCell(axialToWorld(0, 0)), worldToCell(axialToWorld(1, 0))}
PanRadiusTexts == {IntText(1), IntText(2)}

InitPan ==
    /\ MainInit(PanRadiusTexts)
    /\ fnIn = <<>>
    /\ fnOut = <<>>

NextPan ==
    \/ \E cell \in PanHoverCells, ok \in BOOLEAN : PointerMoveHit(cell, ok)
    \/ PointerMoveMiss
    \/ MouseLeave
    \/ MouseEnter
    \/ \E ok \in BOOLEAN : RebuildClick(ok)
    \/ \E ok \in BOOLEAN : RadiusEnter(ok)
    \/ \E text \in PanRadiusTexts : EditRadius(text)
    \/ \E w \in PanPoints : KeyLoop(w)
    \/ \E k \in Keys : KeyDown(k)
    \/ \E k \in Keys : KeyUp(k)
    \/ \E h \in rafLoop, edge \in BOOLEAN, w \in PanPoints : EdgeLoop(h, edge, w)

SpecPan == InitPan /\ [][NextPan]_vars

(***************************************************************************)
(* The scene-per-load version (src/unnamed/part_001, second copy): every   *)
(* grid load disposes the scene and builds a new one, camera and listeners *)
(* included.  `scene` is the module-level scene, `window` is currentGrid.  *)
(* currentCenter, currentRadius, gridLines, keysDown and liveMeshes do not *)
(* exist in this version and keep their initial values.                    *)
(***************************************************************************)
(* hex_grid(radius) of the grid module: the grid of that radius around the *)
(* origin cell.                                                            *)
hex_grid(radius) == hex_window(0, 0, radius)

(* parseRadius(): NaN or a negative number give 0; at most 25. *)
parseRadius(text) ==
    LET parsed == parseInt(text)
    IN  IF parsed.nan \/ parsed.n < 0 THEN 0
        ELSE IF parsed.n < SCENE_MAX_RADIUS THEN parsed.n ELSE SCENE_MAX_RADIUS

(* maxExtent * 0.65, squared. *)
dampedScene(extent2) ==
    (extent2 * SCENE_DAMP_NUM * SCENE_DAMP_NUM) \div (SCENE_DAMP_DEN * SCENE_DAMP_DEN)

(* buildScene(grid): the old scene is disposed, a new scene and a new       *)
(* camera (target at the origin) are created, maxPanRange and the lookup    *)
(* are set from the grid, and setupPointerHandling adds its listeners.      *)
(* edgeScrollActive, edgeScrollTimer and the pending frames are not         *)
(* touched.                                                                 *)
buildScene(grid, op) ==
    /\ window' = Some(grid)
    /\ scene' = scene + 1
    /\ target' = ZeroVec
    /\ maxPanRange' = dampedScene(maxExtent(grid.radius))
    /\ cellLookup' = Some(grid)
    /\ last' = Did(op, IF scene # 0
                       THEN <<"hex_grid", "scene.dispose", "buildScene">>
                       ELSE <<"hex_grid", "buildScene">>)

(* loadGrid(), called by the click listener of the build button and by the  *)
(* Enter key listener of the radius input: hex_grid throws (ok = FALSE)     *)
(* and the catch only reports, or the scene is built from the grid it       *)
(* returns.                                                                 *)
loadGrid(ok, op) ==
    /\ IF ok
       THEN /\ scene < MaxScenes
            /\ buildScene(hex_grid(parseRadius(radiusInput)), op)
       ELSE /\ last' = [Did(op, <<"hex_grid">>) EXCEPT !.ok = FALSE]
            /\ UNCHANGED <<window, scene, target, maxPanRange, cellLookup>>
    /\ UNCHANGED <<radiusInput, currentCenter, currentRadius, gridLines,
                   edgeScrollActive, edgeScrollTimer, rafLoop, keysDown,
                   liveMeshes, frameScene, fnIn, fnOut>>

SceneEditRadius(text) ==
    /\ radiusInput' = text
    /\ last' = Did("input", <<>>)
    /\ UNCHANGED <<currentCenter, currentRadius, gridLines, maxPanRange, target,
                   edgeScrollActive, edgeScrollTimer, rafLoop, keysDown, window,
                   cellLookup, liveMeshes, scene, frameScene, fnIn, fnOut>>

(* loop of setupPointerHandling: it reads the module-level scene, whichever *)
(* scene its listeners were registered for.                                 *)
SceneLoop(h, edge, w) ==
    /\ h \in rafLoop
    /\ IF ~edgeScrollActive \/ scene = 0
       THEN /\ rafLoop' = rafLoop \ {h}
            /\ frameScene' = {p \in frameScene : p[1] # h}
            /\ last' = Did("loop", <<>>)
            /\ UNCHANGED <<target, edgeScrollTimer>>
       ELSE /\ IF edge
               THEN /\ target' = clampTarget(Vec(w), maxPanRange)
                    /\ last' = Did("loop", <<"activeCamera", "clamp">>)
               ELSE /\ last' = Did("loop", <<"activeCamera">>)
                    /\ UNCHANGED target
            /\ LET fresh == FreshHandle(rafLoop \cup {edgeScrollTimer, h})
               IN  /\ edgeScrollTimer' = fresh
                   /\ rafLoop' = (rafLoop \ {h}) \cup {fresh}
                   /\ frameScene' = {p \in frameScene : p[1] # h}
                                       \cup {<<fresh, scene>>}
    /\ UNCHANGED <<radiusInput, currentCenter, currentRadius, gridLines,
                   maxPanRange, edgeScrollActive, keysDown, window, cellLookup,
                   liveMeshes, scene, fnIn, fnOut>>

(* The "mouseenter" listeners: one per scene built so far, all with the     *)
(* same effect; the first schedules the frame, the others find the timer    *)
(* set.  Before the first build there is no listener.                       *)
SceneMouseEnter ==
    /\ scene # 0
    /\ edgeScrollActive' = TRUE
    /\ IF edgeScrollTimer = 0
       THEN LET fresh == FreshHandle(rafLoop)
            IN  /\ edgeScrollTimer' = fresh
                /\ rafLoop' = rafLoop \cup {fresh}
                /\ frameScene' = frameScene \cup {<<fresh, scene>>}
       ELSE UNCHANGED <<edgeScrollTimer, rafLoop, frameScene>>
    /\ last' = Did("mouseenter", <<>>)
    /\ UNCHANGED <<radiusInput, currentCenter, currentRadius, gridLines,
                   maxPanRange, target, keysDown, window, cellLookup,
                   liveMeshes, scene, fnIn, fnOut>>

(* The "mouseleave" listeners: the first cancels the frame, the others find *)
(* the timer null.  (Their setHover(null) only hides the hover meshes.)     *)
SceneMouseLeave ==
    /\ scene # 0
    /\ edgeScrollActive' = FALSE
    /\ IF edgeScrollTimer # 0
       THEN /\ rafLoop' = cancelAnimationFrame(rafLoop, edgeScrollTimer)
            /\ frameScene' = {p \in frameScene : p[1] # edgeScrollTimer}
            /\ edgeScrollTimer' = 0
       ELSE UNCHANGED <<edgeScrollTimer, rafLoop, frameScene>>
    /\ last' = Did("mouseleave", <<>>)
    /\ UNCHANGED <<radiusInput, currentCenter, currentRadius, gridLines,
                   maxPanRange, target, keysDown, window, cellLookup,
                   liveMeshes, scene, fnIn, fnOut>>

SceneRadiusTexts == {JunkText, IntText(1), IntText(2)}

(* The state after run(): the first loadGrid built scene 1, or it failed    *)
(* and there is no scene.                                                   *)
InitScene ==
    /\ radiusInput \in SceneRadiusTexts \cup {IntText(DEFAULT_RADIUS)}
    /\ \E ok \in BOOLEAN :
          /\ scene = IF ok THEN 1 ELSE 0
          /\ window = IF ok THEN Some(hex_grid(parseRadius(radiusInput))) ELSE Null
          /\ cellLookup = window
          /\ maxPanRange = IF ok
                           THEN dampedScene(maxExtent(parseRadius(radiusInput)))
                           ELSE 0
          /\ last = [Did("run", IF ok THEN <<"hex_grid", "buildScene">>
                                      ELSE <<"hex_grid">>) EXCEPT !.ok = ok]
    /\ currentCenter = Null
    /\ currentRadius = DEFAULT_RADIUS
    /\ gridLines = Null
    /\ target = ZeroVec
    /\ edgeScrollActive = FALSE
    /\ edgeScrollTimer = 0
    /\ rafLoop = {}
    /\ frameScene = {}
    /\ keysDown = {}
    /\ liveMeshes = {}
    /\ fnIn = <<>>
    /\ fnOut = <<>>

NextScene ==
    \/ \E ok \in BOOLEAN, op \in {"click", "enter"} : loadGrid(ok, op)
    \/ \E text \in SceneRadiusTexts : SceneEditRadius(text)
    \/ SceneMouseEnter
    \/ SceneMouseLeave
    \/ \E h \in rafLoop, edge \in BOOLEAN, w \in PanPoints : SceneLoop(h, edge, w)

SpecScene == InitScene /\ [][NextScene]_vars

(***************************************************************************)
(* The pure functions, each applied once to an argument of a bounded set.  *)
(***************************************************************************)
Idle == MainInit({IntText(DEFAULT_RADIUS)})

(* worldToCell(axialToWorld(q, r)) *)
InitCell ==
    /\ Idle
    /\ fnIn \in {<<q, r>> : q \in -MaxCoord..MaxCoord, r \in -MaxCoord..MaxCoord}
    /\ fnOut = <<>>

RoundTrip ==
    /\ fnOut = <<>>
    /\ fnOut' = <<worldToCell(axialToWorld(fnIn[1], fnIn[2]))>>
    /\ UNCHANGED <<mainVars, fnIn>>

NextCell == RoundTrip

SpecCell == InitCell /\ [][NextCell]_vars

(* cubeRound(x/d, y/d, z/d) with x + y + z = 0 *)
InitRound ==
    /\ Idle
    /\ fnIn \in {<<x, -x - z, z, d>> :
                    x \in -MaxNum..MaxNum, z \in -MaxNum..MaxNum, d \in 1..MaxDen}
    /\ fnOut = <<>>

CallCubeRound ==
    /\ fnOut = <<>>
    /\ fnOut' = <<cubeRound(fnIn[1], fnIn[2], fnIn[3], fnIn[4])>>
    /\ UNCHANGED <<mainVars, fnIn>>

NextRound == CallCubeRound

SpecRound == InitRound /\ [][NextRound]_vars

(* packId(q, r) over the whole range of the machine integer *)
MinInt == -Pow2(WordBits - 1)
MaxInt == Pow2(WordBits - 1) - 1

InitPack ==
    /\ Idle
    /\ fnIn \in {<<q, r>> : q \in MinInt..MaxInt, r \in MinInt..MaxInt}
    /\ fnOut = <<>>

CallPackId ==
    /\ fnOut = <<>>
    /\ fnOut' = <<packId(fnIn[1], fnIn[2])>>
    /\ UNCHANGED <<mainVars, fnIn>>

NextPack == CallPackId

SpecPack == InitPack /\ [][NextPack]_vars

(* the clamp of a target against a range *)
ClampPoints == {[x |-> i, z |-> j] : i \in -MaxClampCoord..MaxClampCoord,
                                     j \in -MaxClampCoord..MaxClampCoord}
ClampRanges == {25 * k : k \in 0..MaxRangeSteps}

InitClamp ==
    /\ Idle
    /\ fnIn \in {<<Vec(w), m>> : w \in ClampPoints, m \in ClampRanges}
    /\ fnOut = <<>>

CallClamp ==
    /\ fnOut = <<>>
    /\ fnOut' = <<clampTarget(fnIn[1], fnIn[2])>>
    /\ UNCHANGED <<mainVars, fnIn>>

NextClamp == CallClamp

SpecClamp == InitClamp /\ [][NextClamp]_vars

(***************************************************************************)
(* The geometry renderGrid builds: one closed loop of seven points per     *)
(* cell, relative to the window centre, in a mesh that is then positioned. *)
(***************************************************************************)
(* (cos, sin)(PI/6 + (i/6)*2*PI) * HEX_SIZE for i = 0..6, in lattice units: *)
(* cos(30) * HEX_SIZE is one x unit, sin(30) * HEX_SIZE one z unit.         *)
HexCorners ==
    << [x |-> 1, z |-> 1], [x |-> 0, z |-> 2], [x |-> -1, z |-> 1],
       [x |-> -1, z |-> -1], [x |-> 0, z |-> -2], [x |-> 1, z |-> -1],
       [x |-> 1, z |-> 1] >>

Plus(a, b) == [x |-> a.x + b.x, z |-> a.z + b.z]

(* The loop pushed for a cell whose relative centre is `center`. *)
hexLoop(center) == [i \in 1..7 |-> Plus(center, HexCorners[i])]

(* The mutant of cellOffset: the absolute centre of the cell. *)
cellOffset_absolute(cell, centerQ, centerR) == axialToWorld(cell.q, cell.r)

(* axialToWorld(cell.q - centerQ, cell.r - centerR) *)
cellOffset(cell, centerQ, centerR) == axialToWorld(cell.q - centerQ, cell.r - centerR)

(* polyPoints after grid.cells.forEach: the loops of all cells. *)
polyPoints(cells, centerQ, centerR) ==
    {hexLoop(cellOffset(cell, centerQ, centerR)) : cell \in cells}

(* Where a mesh of the given points, positioned at `position`, draws. *)
placed(points, position) ==
    {[i \in 1..7 |-> Plus(loop[i], position)] : loop \in points}

(* A mesh is built for the window (c1, R) and then reused for (c2, R).      *)
(* fnIn = <<c1.q, c1.r, c2.q, c2.r, R>>, fnOut the mesh.                    *)
InitShape ==
    /\ Idle
    /\ fnIn \in {<<a, b, c, d, R>> : a \in -MaxShape..MaxShape, b \in -MaxShape..MaxShape,
                                     c \in -MaxShape..MaxShape, d \in -MaxShape..MaxShape,
                                     R \in 1..MaxRadius}
    /\ fnOut = <<>>

(* renderGrid(c1.q, c1.r, R) with no mesh: the mesh is created. *)
ShapeBuild ==
    /\ fnOut = <<>>
    /\ fnOut' = <<[points |-> polyPoints(hex_window_cells(fnIn[1], fnIn[2], fnIn[5]),
                                         fnIn[1], fnIn[2]),
                   radius |-> fnIn[5],
                   position |-> axialToWorld(fnIn[1], fnIn[2]),
                   reused |-> FALSE]>>
    /\ UNCHANGED <<mainVars, fnIn>>

(* renderGrid(c2.q, c2.r, R) with that mesh: the radius tag is R, so the    *)
(* mesh is kept and only positioned.                                        *)
ShapeReuse ==
    /\ fnOut # <<>>
    /\ ~fnOut[1].reused
    /\ reuseGeometry(fnOut, fnIn[5])
    /\ fnOut' = <<[fnOut[1] EXCEPT !.position = axialToWorld(fnIn[3], fnIn[4]),
                                   !.reused = TRUE]>>
    /\ UNCHANGED <<mainVars, fnIn>>

NextShape == ShapeBuild \/ ShapeReuse

SpecShape == InitShape /\ [][NextShape]_vars

(***************************************************************************)
(* Properties.                                                             *)
(***************************************************************************)
Has(calls, c) == \E i \in 1..Len(calls) : calls[i] = c

(* The last handler called renderGrid and the grid module returned a grid. *)
Built == last.ok /\ Has(last.calls, "hex_window")

Minus(a, b) == [x |-> a.x - b.x, z |-> a.z - b.z]

(* C1: the world point of the exact centre of cell (q, r) resolves back to  *)
(* cell (q, r), for all |q|, |r| <= MaxCoord.                               *)
C1_RoundTrip ==
    fnOut # <<>> => fnOut[1].q = fnIn[1] /\ fnOut[1].r = fnIn[2]

C1_Witness ==
    fnOut # <<>> /\ fnIn = <<2, -3>> /\ fnOut[1].q = 2 /\ fnOut[1].r = -3

(* C2: packId is injective over the whole range of the machine integer: no  *)
(* other pair (q2, r2) has the identifier of (q, r).                        *)
C2_Injective ==
    fnOut # <<>> =>
        \A q2 \in MinInt..MaxInt, r2 \in MinInt..MaxInt :
            <<q2, r2>> # fnIn => packId(q2, r2) # fnOut[1]

(* C6: the three integers cubeRound returns sum to 0. *)
C6_SumZero ==
    fnOut # <<>> => fnOut[1].x + fnOut[1].y + fnOut[1].z = 0

(* The independent roundings do not sum to 0, so the recomputation matters. *)
C6_Witness ==
    /\ fnOut # <<>>
    /\ MathRound(fnIn[1], fnIn[4]) + MathRound(fnIn[2], fnIn[4])
         + MathRound(fnIn[3], fnIn[4]) # 0
    /\ fnOut[1].x + fnOut[1].y + fnOut[1].z = 0

RoundErr(n, d) == Abs(MathRound(n, d) * d - n)

(* C7: cubeRound recomputes exactly one component from the other two       *)
(* roundings: x when the x error is strictly the largest, otherwise y when  *)
(* the y error is strictly greater than the z error, otherwise z.           *)
C7_TieOrder ==
    fnOut # <<>> =>
        LET d == fnIn[4]
            rx == MathRound(fnIn[1], d)
            ry == MathRound(fnIn[2], d)
            rz == MathRound(fnIn[3], d)
            ex == RoundErr(fnIn[1], d)
            ey == RoundErr(fnIn[2], d)
            ez == RoundErr(fnIn[3], d)
            o == fnOut[1]
        IN  /\ (ex > ey /\ ex > ez) =>
                  o.y = ry /\ o.z = rz /\ o.x = -ry - rz
            /\ (~(ex > ey /\ ex > ez) /\ ey > ez) =>
                  o.x = rx /\ o.z = rz /\ o.y = -rx - rz
            /\ (~(ex > ey /\ ex > ez) /\ ~(ey > ez)) =>
                  o.x = rx /\ o.y = ry /\ o.z = -rx - ry

(* A tie of the x and y errors above the z error, at (1/2, -1/2, 0): y is   *)
(* the component recomputed, and its value differs from its rounding.       *)
C7_Witness ==
    /\ fnOut # <<>>
    /\ fnIn = <<1, -1, 0, 2>>
    /\ RoundErr(fnIn[1], 2) = RoundErr(fnIn[2], 2)
    /\ RoundErr(fnIn[2], 2) > RoundErr(fnIn[3], 2)
    /\ fnOut[1] = [x |-> 1, y |-> -1, z |-> 0]
    /\ MathRound(fnIn[2], 2) = 0

(* C8: the clamp leaves a target no longer than the range unchanged and     *)
(* otherwise scales it to exactly the range, in the same direction; the     *)
(* result is never longer than the range.                                   *)
C8_Clamp ==
    fnOut # <<>> =>
        LET t == fnIn[1]
            m == fnIn[2]
            o == fnOut[1]
        IN  /\ t.len2 <= m => o = t
            /\ t.len2 > m =>
                  /\ o.len2 = m
                  /\ o = ZeroVec \/ (o.x = t.x /\ o.z = t.z)
            /\ o.len2 <= m

C8_Witness ==
    /\ fnOut # <<>>
    /\ fnIn[1].len2 > fnIn[2]
    /\ fnIn[2] > 0
    /\ fnOut[1].len2 = fnIn[2]
    /\ fnOut[1].x = fnIn[1].x /\ fnOut[1].z = fnIn[1].z

WindowCenterWorld == axialToWorld(window[1].center_q, window[1].center_r)

(* C3: a successful build with the radius of the previous successful build  *)
(* and another centre disposes nothing and creates nothing: the mesh found  *)
(* is kept, with its radius tag, and is positioned at the world position of *)
(* the new centre.                                                          *)
C3_Reposition ==
    (Built /\ last.hadWindow /\ last.sameRadius /\ ~last.sameCenter) =>
        /\ ~Has(last.calls, "dispose")
        /\ ~Has(last.calls, "create")
        /\ Has(last.calls, "position")
        /\ last.prevId # 0
        /\ gridLines # Null
        /\ gridLines[1].id = last.prevId
        /\ gridLines[1].radius = window[1].radius
        /\ gridLines[1].position = WindowCenterWorld
        /\ liveMeshes = {last.prevId}

C3_Witness ==
    /\ Built /\ last.hadWindow /\ last.sameRadius /\ ~last.sameCenter
    /\ gridLines # Null
    /\ gridLines[1].id = last.prevId
    /\ gridLines[1].position = WindowCenterWorld
    /\ WindowCenterWorld # axialToWorld(0, 0)
    /\ ~Has(last.calls, "create")

(* C4: a successful build with a radius other than that of the previous     *)
(* successful build disposes the mesh found and creates one tagged with the *)
(* new radius; a build that finds no mesh creates one; no other handler and *)
(* no other build creates a mesh.                                           *)
C4_Rebuild ==
    /\ (Built /\ last.hadWindow /\ ~last.sameRadius) =>
          /\ Has(last.calls, "dispose")
          /\ Has(last.calls, "create")
          /\ last.prevId # 0
          /\ gridLines # Null
          /\ gridLines[1].id # last.prevId
          /\ last.prevId \notin liveMeshes
          /\ gridLines[1].radius = window[1].radius
    /\ (Built /\ last.prevId = 0) =>
          /\ Has(last.calls, "create")
          /\ ~Has(last.calls, "dispose")
          /\ gridLines # Null
          /\ gridLines[1].radius = window[1].radius
    /\ Has(last.calls, "create") =>
          Built /\ (last.prevId = 0 \/ (last.hadWindow /\ ~last.sameRadius))

C4_Witness ==
    /\ Built /\ last.hadWindow /\ ~last.sameRadius
    /\ Has(last.calls, "dispose")
    /\ Has(last.calls, "create")
    /\ gridLines # Null
    /\ gridLines[1].id # last.prevId
    /\ gridLines[1].radius = window[1].radius

Center(q, r) == Some([q |-> q, r |-> r])
HoverOf(q, r) == last'.op = "setHover" /\ last'.ok /\ last'.center = Center(q, r)

(* C5: with no window and requested radius 3, a hover resolving to (0, 0)   *)
(* builds the window of centre (0, 0) and radius 3 with 37 cells and        *)
(* creates the mesh; from that window, a hover resolving to (1, 0) with the *)
(* radius still 3 calls the grid module again and only repositions the      *)
(* mesh.                                                                    *)
C5_Scenario ==
    [][ /\ (/\ window = Null /\ gridLines = Null /\ currentCenter = Null
            /\ parseRadiusCap(radiusInput) = 3
            /\ HoverOf(0, 0))
           => /\ currentCenter' = Center(0, 0)
              /\ currentRadius' = 3
              /\ window' = Some(hex_window(0, 0, 3))
              /\ Cardinality(hex_window_cells(window'[1].center_q,
                                              window'[1].center_r,
                                              window'[1].radius)) = 37
              /\ last'.calls = <<"hex_window", "create", "setEnabled", "position">>
              /\ gridLines' # Null
              /\ gridLines'[1].radius = 3
              /\ gridLines'[1].position = axialToWorld(0, 0)
        /\ (/\ window = Some(hex_window(0, 0, 3)) /\ currentCenter = Center(0, 0)
            /\ gridLines # Null
            /\ parseRadiusCap(radiusInput) = 3
            /\ HoverOf(1, 0))
           => /\ currentCenter' = Center(1, 0)
              /\ currentRadius' = 3
              /\ window' = Some(hex_window(1, 0, 3))
              /\ last'.calls = <<"hex_window", "position", "setEnabled">>
              /\ gridLines' = Some([gridLines[1] EXCEPT
                                       !.position = axialToWorld(1, 0),
                                       !.enabled = TRUE])
              /\ liveMeshes' = liveMeshes
      ]_vars

(* The state after the second hover of the scenario. *)
C5_Witness ==
    /\ last.op = "setHover" /\ Built
    /\ last.hadWindow /\ last.sameRadius /\ ~last.sameCenter
    /\ currentCenter = Center(1, 0)
    /\ window = Some(hex_window(1, 0, 3))
    /\ last.calls = <<"hex_window", "position", "setEnabled">>
    /\ gridLines # Null
    /\ gridLines[1].id = last.prevId
    /\ gridLines[1].position = axialToWorld(1, 0)

(* C9: after every pan update and after every window change the camera      *)
(* target is no longer than maxPanRange.                                    *)
C9_TargetInRange ==
    (last.op \in {"keyPan", "edgePan"} \/ Built) => target.len2 <= maxPanRange

(* The world distance, squared, between the centre of the cell at offset    *)
(* (dq, dr) from the window centre and the window centre.                   *)
FarDistance2(dq, dr) ==
    Length2(Minus(axialToWorld(window[1].center_q + dq, window[1].center_r + dr),
                  WindowCenterWorld))

(* C10 as stated: after a build maxPanRange is the damping factor times the *)
(* larger of the distances of the cells at offsets (radius, 0) and          *)
(* (radius, -radius), and nothing else.                                     *)
C10_TwoCellsOnly ==
    Built =>
        maxPanRange = damped(Max2(FarDistance2(window[1].radius, 0),
                                  FarDistance2(window[1].radius, -window[1].radius)))

(* C10 amended: after a build maxPanRange is the damping factor 0.8 times   *)
(* the largest of the two distances and 2 * HEX_SIZE; the third term is the *)
(* largest at radius 1 only.                                                *)
C10_WithFloor ==
    Built =>
        LET R == window[1].radius
            two == Max2(FarDistance2(R, 0), FarDistance2(R, -R))
        IN  /\ R >= 1
            /\ maxPanRange * 100 = 64 * Max2(two, 4 * HEX_SIZE_SQ)
            /\ R >= 2 => maxPanRange * 100 = 64 * two
            /\ R = 1 => maxPanRange * 100 > 64 * two

C10_Witness ==
    /\ Built
    /\ window[1].radius = 1
    /\ maxPanRange * 100 = 64 * 4 * HEX_SIZE_SQ
    /\ maxPanRange * 100 > 64 * FarDistance2(1, 0)

(* The radius text is a decimal integer n >= 1. *)
ValidRadiusText(text) == text.kind = "int" /\ text.n >= 1

(* C11: the radius the build button and the Enter key read from the input   *)
(* is 1 for a non-numeric, zero or negative text and n for the text of an   *)
(* integer n >= 1.                                                          *)
C11_MinimumOne ==
    last.op \in {"click", "enter"} =>
        currentRadius = IF ValidRadiusText(radiusInput) THEN radiusInput.n ELSE 1

(* C12: a hover whose grid-module call throws leaves currentCenter,          *)
(* currentRadius, the mesh (position and radius tag) and maxPanRange as     *)
(* they were before the hover, and the next hover of the same cell calls    *)
(* the grid module again.                                                   *)
C12_AbortIntact ==
    [][ /\ (last'.op = "setHover" /\ ~last'.ok)
           => /\ currentCenter' = currentCenter
              /\ currentRadius' = currentRadius
              /\ gridLines' = gridLines
              /\ maxPanRange' = maxPanRange
        /\ (/\ last.op = "setHover" /\ ~last.ok
            /\ last'.op = "setHover" /\ last'.center = last.center)
           => Has(last'.calls, "hex_window")
      ]_vars

Count(calls, c) == Cardinality({i \in 1..Len(calls) : calls[i] = c})

(* C13: a hover that resolves to a cell other than the current centre calls *)
(* the grid module exactly once, with that cell as centre and the radius    *)
(* the input holds at that moment, and currentCenter and currentRadius      *)
(* become that centre and that radius; the grid returned is the window.     *)
C13_Recenter ==
    [][ (/\ last'.op = "setHover"
         /\ currentCenter # Null
         /\ last'.center # currentCenter)
        => /\ Count(last'.calls, "hex_window") = 1
           /\ last'.radius = parseRadiusCap(radiusInput)
           /\ currentCenter' = last'.center
           /\ currentRadius' = parseRadiusCap(radiusInput)
           /\ last'.ok => window' = Some(hex_window(last'.center[1].q,
                                                    last'.center[1].r,
                                                    parseRadiusCap(radiusInput)))
      ]_vars

(* A recenter after the radius text changed: the build uses the new radius. *)
C13_Witness ==
    /\ last.op = "setHover" /\ Built
    /\ last.hadWindow /\ ~last.sameCenter /\ ~last.sameRadius
    /\ Count(last.calls, "hex_window") = 1
    /\ currentCenter = last.center
    /\ currentRadius = last.radius
    /\ currentRadius = parseRadiusCap(radiusInput)
    /\ window[1].radius = currentRadius

(* A centre is set and the radius the input holds is not the radius of the  *)
(* last build request.                                                      *)
RadiusChanged == currentCenter # Null /\ parseRadiusCap(radiusInput) # currentRadius

(* A window exists and its centre is the current centre. *)
WindowAtCenter ==
    /\ window # Null
    /\ currentCenter = Some([q |-> window[1].center_q, r |-> window[1].center_r])

(* The next handler is a hover that resolves to the current centre cell. *)
HoverOfCenter == last'.op = "setHover" /\ last'.center = currentCenter

(* The next handler called the grid module once, with the unchanged centre  *)
(* and the radius the input holds, and the grid it returned is the window.  *)
RebuiltAtCenter ==
    /\ Count(last'.calls, "hex_window") = 1
    /\ last'.center = currentCenter
    /\ last'.radius = parseRadiusCap(radiusInput)
    /\ currentCenter' = currentCenter
    /\ currentRadius' = parseRadiusCap(radiusInput)
    /\ last'.ok => window' = Some(hex_window(currentCenter[1].q, currentCenter[1].r,
                                             parseRadiusCap(radiusInput)))

(* C14 as stated: after a change of the requested radius, the build button, *)
(* the Enter key and a hover of the current centre cell each call the grid  *)
(* module with the unchanged centre and the new radius.                     *)
C14_AnyTrigger ==
    [][ (/\ WindowAtCenter
         /\ RadiusChanged
         /\ (last'.op \in {"click", "enter"} \/ HoverOfCenter))
        => RebuiltAtCenter ]_vars

(* C14 amended: the build button and the Enter key do; a hover of the       *)
(* current centre cell calls nothing and leaves the window and              *)
(* currentRadius as they were.                                              *)
C14_ButtonOrEnter ==
    [][ /\ (RadiusChanged /\ last'.op \in {"click", "enter"}) => RebuiltAtCenter
        /\ (RadiusChanged /\ HoverOfCenter)
           => /\ ~Has(last'.calls, "hex_window")
              /\ window' = window
              /\ currentRadius' = currentRadius
              /\ maxPanRange' = maxPanRange
      ]_vars

(* After a click that rebuilt the window at its centre with another radius. *)
C14_Witness ==
    /\ last.op = "click" /\ Built
    /\ last.hadWindow /\ last.sameCenter /\ ~last.sameRadius
    /\ currentCenter = last.center
    /\ window[1].radius = parseRadiusCap(radiusInput)
    /\ gridLines[1].radius = window[1].radius

(* C15: setHover(null) (pointer leave, or a pointer move that misses the    *)
(* plane) empties the cell lookup, disables the mesh and disposes nothing:  *)
(* the mesh object, its radius tag and its position stay; and a build at    *)
(* the radius of a disabled mesh keeps that mesh object, only repositions   *)
(* and enables it.                                                          *)
C15_HideKeepsGeometry ==
    [][ /\ last'.op \in {"pointerMiss", "mouseleave"}
           => /\ cellLookup' = Null
              /\ liveMeshes' = liveMeshes
              /\ ~Has(last'.calls, "dispose")
              /\ gridLines = Null => gridLines' = Null
              /\ gridLines # Null
                 => /\ gridLines' # Null
                    /\ ~gridLines'[1].enabled
                    /\ gridLines'[1].id = gridLines[1].id
                    /\ gridLines'[1].radius = gridLines[1].radius
                    /\ gridLines'[1].position = gridLines[1].position
        /\ (/\ gridLines # Null /\ ~gridLines[1].enabled
            /\ last'.ok /\ Has(last'.calls, "hex_window")
            /\ last'.radius = gridLines[1].radius)
           => /\ ~Has(last'.calls, "dispose")
              /\ ~Has(last'.calls, "create")
              /\ Has(last'.calls, "position")
              /\ liveMeshes' = liveMeshes
              /\ gridLines'[1].id = gridLines[1].id
              /\ gridLines'[1].enabled
              /\ gridLines'[1].position = axialToWorld(last'.center[1].q,
                                                        last'.center[1].r)
      ]_vars

(* After a pointer leave from a displayed window. *)
C15_Witness ==
    /\ last.op = "mouseleave"
    /\ window # Null
    /\ cellLookup = Null
    /\ gridLines # Null
    /\ ~gridLines[1].enabled
    /\ liveMeshes = {gridLines[1].id}
    /\ last.calls = <<"setDisabled">>

(* C16: once the pointer has left the canvas no frame callback of the       *)
(* edge-scroll loop is pending and the handler that follows the leave, if   *)
(* it is not the pointer entering again, does not change the camera target. *)
C16_NoPanAfterLeave ==
    [][ last.op = "mouseleave"
        => /\ rafLoop = {}
           /\ edgeScrollTimer = 0
           /\ last'.op # "mouseenter" => target' = target
      ]_vars

(* C17: a build calls the grid module first and, when the call throws,      *)
(* does nothing else; the pan range is always the one of the radius of the  *)
(* grid last returned, so the target a clamp leaves is within the range of  *)
(* that window, never of an earlier one.                                    *)
C17_FreshRange ==
    /\ Has(last.calls, "hex_window")
       => /\ last.calls[1] = "hex_window"
          /\ ~last.ok => last.calls = <<"hex_window">>
    /\ window = Null => maxPanRange = 0
    /\ window # Null => maxPanRange = damped(maxExtent(window[1].radius))
    /\ (window # Null /\ last.op \in {"keyPan", "edgePan"})
       => target.len2 <= damped(maxExtent(window[1].radius))

(* A key pan clamped to the range of a radius-1 window that replaced a      *)
(* window of another radius (the mesh is the second one created).           *)
C17_Witness ==
    /\ last.op = "keyPan"
    /\ window # Null
    /\ window[1].radius = 1
    /\ gridLines # Null
    /\ gridLines[1].id = 2
    /\ target.len2 = damped(maxExtent(1))
    /\ target.len2 < damped(maxExtent(2))

(* The loops of the hexagons centred at axialToWorld(q, r) for the cells    *)
(* (q, r) within hex distance R of (cq, cr).                                *)
WindowHexagons(cq, cr, R) ==
    {hexLoop(axialToWorld(cell.q, cell.r)) : cell \in hex_window_cells(cq, cr, R)}

(* C18: a mesh built from the window (c1, R) draws the hexagons of exactly  *)
(* the cells of that window; reused for (c2, R), that is only positioned at *)
(* axialToWorld(c2), it draws the hexagons of exactly the cells of the      *)
(* window (c2, R), as a mesh built afresh at c2 does.                       *)
C18_ShapeCorrect ==
    fnOut # <<>> =>
        LET mesh == fnOut[1]
            R == fnIn[5]
            drawn == placed(mesh.points, mesh.position)
        IN  /\ ~mesh.reused => drawn = WindowHexagons(fnIn[1], fnIn[2], R)
            /\ mesh.reused =>
                  /\ drawn = WindowHexagons(fnIn[3], fnIn[4], R)
                  /\ drawn = placed(polyPoints(hex_window_cells(fnIn[3], fnIn[4], R),
                                               fnIn[3], fnIn[4]),
                                    axialToWorld(fnIn[3], fnIn[4]))

(* A mesh built at (1, 0) with radius 2 and reused at (-1, 1). *)
C18_Witness ==
    /\ fnOut # <<>>
    /\ fnIn = <<1, 0, -1, 1, 2>>
    /\ fnOut[1].reused
    /\ fnOut[1].position = axialToWorld(-1, 1)
    /\ Cardinality(fnOut[1].points) = 19
    /\ hexLoop(axialToWorld(-3, 1)) \in placed(fnOut[1].points, fnOut[1].position)
    /\ hexLoop(axialToWorld(3, 0)) \notin placed(fnOut[1].points, fnOut[1].position)

(* C19: the hover that follows a pointer leave from a displayed window      *)
(* calls the grid module and builds the window of the cell it resolves to,  *)
(* whichever cell that is.                                                  *)
C19_LeaveTearsDown ==
    [][ (last.op = "mouseleave" /\ window # Null /\ last'.op = "setHover")
        => /\ Has(last'.calls, "hex_window")
           /\ last'.ok => /\ window' = Some(hex_window(last'.center[1].q,
                                                       last'.center[1].r,
                                                       parseRadiusCap(radiusInput)))
                          /\ cellLookup' = window'
      ]_vars

(* C20: the distance field of the cell a pointer move resolves to is the    *)
(* hex distance between that cell and the centre of the window displayed    *)
(* when the pointer moves.                                                  *)
C20_DistanceFromCenter ==
    [][ (WindowAtCenter /\ last'.op = "setHover")
        => last'.distance = HexDistance(last'.center[1].q - currentCenter[1].q,
                                        last'.center[1].r - currentCenter[1].r)
      ]_vars

(* Whether the target t = [x, z, len2] lies within squared distance m2 of   *)
(* the lattice point c.  t is the vector s * w with w = [t.x, t.z] and      *)
(* s^2 = t.len2 / |w|^2, so |t - c|^2 = t.len2 + |c|^2 - 2 * s * (w . c);   *)
(* the comparison is made on squares, without the root.                     *)
WithinOf(t, c, m2) ==
    LET W == Length2(t)
        A == t.len2 + Length2(c)
        B == 75 * t.x * c.x + 25 * t.z * c.z
    IN  IF W = 0 \/ B = 0
        THEN A <= m2
        ELSE IF B > 0
             THEN A <= m2 \/ (A - m2) * (A - m2) * W <= 4 * t.len2 * B * B
             ELSE A <= m2 /\ (m2 - A) * (m2 - A) * W >= 4 * t.len2 * B * B

(* C21: after every clamp (a key pan or an edge pan) with a window          *)
(* displayed, the camera target is within maxPanRange of the world position *)
(* of the window's centre.                                                  *)
C21_WithinRangeOfCenter ==
    (last.op \in {"keyPan", "edgePan"} /\ WindowAtCenter)
        => WithinOf(target, axialToWorld(currentCenter[1].q, currentCenter[1].r),
                    maxPanRange)

(* C23: zigzag(v) is 2v for v >= 0 and -2v - 1 for v < 0, hence             *)
(* non-negative and below 2^WordBits, for every machine integer v (here the *)
(* q and the r of the pair packed).                                         *)
C23_ZigzagNonNegative ==
    fnOut # <<>> =>
        \A v \in {fnIn[1], fnIn[2]} :
            /\ zigzag(v) = IF v >= 0 THEN 2 * v ELSE -2 * v - 1
            /\ zigzag(v) >= 0
            /\ zigzag(v) < Pow2(WordBits)

IndexOf(calls, c) ==
    IF Has(calls, c) THEN CHOOSE i \in 1..Len(calls) : calls[i] = c ELSE 0

(* C26: at most one grid mesh is live, the one app.gridLines holds; a       *)
(* handler that creates a mesh while one exists has disposed that one       *)
(* before the creation.                                                     *)
C26_OneLiveMesh ==
    /\ Cardinality(liveMeshes) \in {0, 1}
    /\ liveMeshes = IF gridLines = Null THEN {} ELSE {gridLines[1].id}
    /\ (Has(last.calls, "create") /\ last.prevId # 0)
       => /\ Has(last.calls, "dispose")
          /\ IndexOf(last.calls, "dispose") < IndexOf(last.calls, "create")
          /\ last.prevId \notin liveMeshes
    /\ Has(last.calls, "dispose") => Has(last.calls, "create")

(* After a build that replaced a mesh. *)
C26_Witness ==
    /\ Built
    /\ last.prevId # 0
    /\ last.calls = <<"hex_window", "dispose", "create", "setEnabled", "position">>
    /\ gridLines # Null
    /\ gridLines[1].id # last.prevId
    /\ liveMeshes = {gridLines[1].id}

(* C25: when every grid-module call succeeds, a grid mesh that exists is    *)
(* tagged with currentRadius and positioned at the world position of        *)
(* currentCenter.                                                           *)
C25_MeshMatchesWindow ==
    gridLines # Null
        => /\ currentCenter # Null
           /\ gridLines[1].radius = currentRadius
           /\ gridLines[1].position = axialToWorld(currentCenter[1].q,
                                                   currentCenter[1].r)

(* After a click that changed the radius of a window not centred on (0,0),  *)
(* the mesh having been hidden and shown again before.                      *)
C25_Witness ==
    /\ last.op = "click" /\ Built /\ ~last.sameRadius /\ last.hadWindow
    /\ gridLines # Null
    /\ currentCenter = Center(1, -1)
    /\ gridLines[1].radius = currentRadius
    /\ currentRadius = 2
    /\ gridLines[1].position = axialToWorld(1, -1)

(* C30: whenever the grid mesh is enabled, the cell lookup holds the cells  *)
(* the grid module returns for (currentCenter, currentRadius).              *)
C30_LookupMatchesWindow ==
    (gridLines # Null /\ gridLines[1].enabled)
        => /\ currentCenter # Null
           /\ cellLookup = Some(hex_window(currentCenter[1].q, currentCenter[1].r,
                                           currentRadius))

(* C27: at most one edge-scroll callback is pending, and edgeScrollTimer is  *)
(* non-null exactly when one is pending (it then holds that callback's      *)
(* handle).                                                                 *)
C27_OnePendingFrame ==
    /\ Cardinality(rafLoop) <= 1
    /\ (edgeScrollTimer # 0) <=> (rafLoop # {})
    /\ rafLoop # {} => rafLoop = {edgeScrollTimer}

(* An edge-scroll frame ran and rescheduled itself under a new handle.      *)
C27_Witness ==
    /\ last.op = "edgePan"
    /\ edgeScrollActive
    /\ edgeScrollTimer = 2
    /\ rafLoop = {2}

(* C28: a hover that resolves to the current centre cell makes no call of    *)
(* the grid module, leaves currentCenter, currentRadius, maxPanRange, the    *)
(* window, the mesh object, its position and its radius tag unchanged, and   *)
(* enables the mesh if there is one.                                         *)
C28_SameCenterHover ==
    [][ HoverOfCenter
        => /\ ~Has(last'.calls, "hex_window")
           /\ ~Has(last'.calls, "create")
           /\ ~Has(last'.calls, "dispose")
           /\ currentCenter' = currentCenter
           /\ currentRadius' = currentRadius
           /\ maxPanRange' = maxPanRange
           /\ window' = window
           /\ liveMeshes' = liveMeshes
           /\ gridLines = Null => gridLines' = Null
           /\ gridLines # Null
              => gridLines' = Some([gridLines[1] EXCEPT !.enabled = TRUE])
      ]_vars

(* After a hover of the centre cell that enabled the mesh a pointer leave   *)
(* had disabled, the radius input holding another radius than the window.   *)
C28_Witness ==
    /\ last.op = "setHover"
    /\ last.calls = <<"setEnabled">>
    /\ last.center = currentCenter
    /\ cellLookup = Null
    /\ gridLines # Null /\ gridLines[1].enabled
    /\ gridLines[1].radius = currentRadius
    /\ parseRadiusCap(radiusInput) # currentRadius

(* Squared world distance, up to a constant factor, between axial points    *)
(* that differ by (dq, dr).                                                 *)
AxialDist2(dq, dr) == dq * dq + dq * dr + dr * dr

RoundCandidates == -(MaxNum + 1)..(MaxNum + 1)

(* C29: the cell cubeRound returns for the axial point (x/d, z/d) is a      *)
(* nearest cell: no cell centre is strictly closer to the point in world    *)
(* distance, edge and corner points included.                               *)
C29_NearestCell ==
    fnOut # <<>> =>
        LET x == fnIn[1]
            z == fnIn[3]
            d == fnIn[4]
            o == fnOut[1]
        IN  \A cq \in RoundCandidates, cr \in RoundCandidates :
                AxialDist2(x - o.x * d, z - o.z * d)
                    <= AxialDist2(x - cq * d, z - cr * d)

(* A corner point, (1/3, 1/3, -2/3): three cells are equally near, the      *)
(* three roundings do not sum to 0, and the cell returned is one of the     *)
(* three.                                                                   *)
C29_Witness ==
    /\ fnOut # <<>>
    /\ fnIn = <<1, 1, -2, 3>>
    /\ fnOut[1] = [x |-> 0, y |-> 0, z |-> 0]
    /\ AxialDist2(1, -2) = AxialDist2(1, -2 + 3)
    /\ AxialDist2(1, -2) = AxialDist2(1 - 3, -2 + 3)

(* C22: in the scene-per-load version, an edge-scroll callback that runs     *)
(* past its guard and uses the scene's camera was requested under the       *)
(* scene that is current when it runs: a callback requested before a        *)
(* rebuild never runs against the scene that rebuild created.               *)
C22_NoStaleFrame ==
    [][ \A p \in frameScene :
           (/\ last'.op = "loop"
            /\ Has(last'.calls, "activeCamera")
            /\ p[1] \in rafLoop /\ p[1] \notin rafLoop')
              => p[2] = scene
      ]_vars

====
